---- MODULE Spec2Model ----
(***************************************************************************)
(* Order-to-invoice reconciliation of facturitrendy: the order_invoices    *)
(* mapping table (user_manager.py), the bulk-create and bulk-upload        *)
(* workflows, single-order create and the admin invoice screens (app.py).  *)
(*                                                                         *)
(* The Flask development server handles requests in threads, so one bulk   *)
(* workflow, the single-order creates and the admin screens interleave at  *)
(* the granularity of their network calls and database transactions.       *)
(***************************************************************************)
EXTENDS Integers, Sequences, FiniteSets, TLC

\* ------------------------------------------------------------------ bounds
MaxOrders == 3        \* orders the marketplace holds
MaxOrderNo == 2       \* distinct order numbers
PageSize == 2         \* size= of the gather loop's get_orders (200 in app.py), scaled
MaxRuns == 2          \* bulk workflows that pass the credential checks
MaxInvoices == 3      \* invoices the provider issues
MaxSingles == 2       \* single-order create requests
MaxAdminRows == 1     \* rows the admin screens add, in all
MaxCount == 3         \* largest order_count / upload_count of a request
MaxErrors == 2        \* errors[:10]: the cut of the errors list (10 in the code), scaled

OrderNumbers == 1..MaxOrderNo
MaxId == MaxInvoices + MaxAdminRows
CountValues == (-1)..MaxCount

Min(a, b) == IF a < b THEN a ELSE b
Max(a, b) == IF a > b THEN a ELSE b

\* ------------------------------------------------------------------- users
\* A row of the users table: None is "".
Users ==
  [ u1  |-> [role |-> "user",  trendyol_api_key |-> "k", trendyol_api_secret |-> "s",
             trendyol_supplier_id |-> "7", smartbill_api_token |-> "t",
             smartbill_email |-> "e", smartbill_company_cif |-> "c"],
    u2  |-> [role |-> "user",  trendyol_api_key |-> "k", trendyol_api_secret |-> "s",
             trendyol_supplier_id |-> "7", smartbill_api_token |-> "t",
             smartbill_email |-> "e", smartbill_company_cif |-> ""],
    u3  |-> [role |-> "user",  trendyol_api_key |-> "k", trendyol_api_secret |-> "",
             trendyol_supplier_id |-> "7", smartbill_api_token |-> "t",
             smartbill_email |-> "e", smartbill_company_cif |-> "c"],
    u4  |-> [role |-> "user",  trendyol_api_key |-> "", trendyol_api_secret |-> "",
             trendyol_supplier_id |-> "", smartbill_api_token |-> "",
             smartbill_email |-> "", smartbill_company_cif |-> ""],
    adm |-> [role |-> "admin", trendyol_api_key |-> "k", trendyol_api_secret |-> "s",
             trendyol_supplier_id |-> "7", smartbill_api_token |-> "",
             smartbill_email |-> "", smartbill_company_cif |-> ""] ]

UserIds == DOMAIN Users

is_admin(u) == Users[u].role = "admin"

TrendyolConfigured(u) ==
  /\ Users[u].trendyol_api_key # ""
  /\ Users[u].trendyol_api_secret # ""
  /\ Users[u].trendyol_supplier_id # ""

SmartbillConfigured(u) ==
  /\ Users[u].smartbill_api_token # ""
  /\ Users[u].smartbill_email # ""
  /\ Users[u].smartbill_company_cif # ""

check_credentials(u) == IF is_admin(u) THEN FALSE ELSE TrendyolConfigured(u)

check_smartbill_credentials(u) == IF is_admin(u) THEN FALSE ELSE SmartbillConfigured(u)

\* ------------------------------------------------------------- marketplace
\* An order of the marketplace's order list: id is the shipment package id,
\* orderNumber the business key (standing for its JSON string), invoiceLink
\* "" when the marketplace holds no invoice for it.
Order(i, n, l) == [id |-> i, orderNumber |-> n, invoiceLink |-> l]

OrderLists(len) ==
  { m \in [1..len -> [id : 1..len, orderNumber : OrderNumbers, invoiceLink : {"", "L"}]] :
      \A i \in 1..len : m[i].id = i }

Markets == UNION { OrderLists(len) : len \in 0..MaxOrders }

\* The content of page `page` of the unfiltered, single-status get_orders: the
\* marketplace's own window of its order list.
PageContent(m, page, size) ==
  SubSeq(m, Min(page * size, Len(m)) + 1, Min((page + 1) * size, Len(m)))

\* lst[:n] of Python.
PySliceTo(lst, n) ==
  SubSeq(lst, 1, IF n >= 0 THEN Min(n, Len(lst)) ELSE Max(Len(lst) + n, 0))

\* ------------------------------------------------------ order_invoices table
Row(i, u, o, s, n) ==
  [id |-> i, user_id |-> u, order_id |-> o, invoice_series |-> s, invoice_number |-> n]

\* The table without its UNIQUE constraint.
NoUniqueConstraint(rows, u, o) == TRUE

\* UNIQUE(user_id, order_id): may a row for (u, o) be added to rows?
UniqueConstraint(rows, u, o) ==
  \A r \in rows : ~(r.user_id = u /\ r.order_id = o)

\* SELECT ... FROM order_invoices WHERE user_id = ? AND order_id = ?: a row came back.
HasMapping(rows, u, o) == \E r \in rows : r.user_id = u /\ r.order_id = o

\* SELECT order_id FROM order_invoices WHERE user_id = ?
OrdersOf(rows, u) == { r.order_id : r \in { x \in rows : x.user_id = u } }

\* DELETE FROM order_invoices WHERE user_id = ? AND order_id = ?
DeleteMapping(rows, u, o) == { r \in rows : ~(r.user_id = u /\ r.order_id = o) }

\* The dict comprehension of bulk-upload: order_id -> series/number, the last
\* fetched row winning (one row per key under the constraint).
InvoiceMappings(rows, u) ==
  [ o \in OrdersOf(rows, u) |->
      LET r == CHOOSE x \in rows : x.user_id = u /\ x.order_id = o
      IN  [series |-> r.invoice_series, number |-> r.invoice_number] ]

VARIABLES
  market,                   \* the marketplace's order list
  order_invoices,           \* the mapping table
  next_id,                  \* its AUTOINCREMENT
  issued,                   \* invoices the provider issued: [user, order, number, run]
  pc, kind, cur, count,     \* the bulk workflow: position, create/upload, user, count
  existing_invoice_orders,  \* bulk-create's snapshot of the user's mapped orders
  invoice_mappings,         \* bulk-upload's snapshot of the user's mappings
  page, all_orders,         \* the gather loop
  orders_without_invoice,   \* bulk-create's eligible orders
  orders_to_process,        \* ... cut to order_count
  orders_to_upload_all,     \* bulk-upload's candidates
  orders_to_upload,         \* ... cut to upload_count
  idx,                      \* position of the for loop in the work list
  successful, failed, errors,
  result,                   \* what create_invoice / get_invoice_pdf returned
  resp,                     \* the last response of a bulk workflow
  calls,                    \* the calls the current bulk workflow made
  run, crashed,             \* runs started; the runs that were interrupted, and where
  single,                   \* the single-order create requests in flight
  started,                  \* single-order creates and admin adds so far
  upstream,                 \* get_orders: the orders the marketplace lists
  status, sku,              \* ... its status and sku arguments
  gpc,                      \* ... its position
  status_idx, fetch_page,   \* ... the status and the page being fetched
  fetched_orders,           \* ... all_orders, the orders gathered so far
  seen_order_ids,           \* ... the identifiers gathered so far
  fetches,                  \* ... the upstream requests made: [status, page, out]
  merged,                   \* ... the filtered, merged list before the page window
  window,                   \* ... its page and size arguments
  returned,                 \* ... what it returned
  draft_order, draft_series,\* generate_invoice_data_from_order: the order, the series listed
  invoice_data              \* ... the draft it returned

lists == <<orders_without_invoice, orders_to_process, orders_to_upload_all, orders_to_upload>>
bulkLocals == <<kind, cur, count, existing_invoice_orders, invoice_mappings, page,
                all_orders, lists, idx, successful,
                failed, errors, result, calls>>
store == <<order_invoices, next_id>>
appVars == <<market, store, issued, pc, bulkLocals, resp, run, crashed, single, started>>
serviceVars == <<upstream, status, sku, gpc, status_idx, fetch_page, fetched_orders,
                 seen_order_ids, fetches, merged, window, returned>>
draftVars == <<draft_order, draft_series, invoice_data>>
outside == <<serviceVars, draftVars>>
vars == <<appVars, outside>>

NoResult == [series |-> "", number |-> 0]
NoResp == [status |-> 0, error |-> "", total |-> 0, successful |-> 0, failed |-> 0,
           errors |-> <<>>]
\* An answer that reports the failure as a success.
SilentResp(st, msg) == [NoResp EXCEPT !.status = 200]
ErrorResp(st, msg) == [NoResp EXCEPT !.status = st, !.error = msg]
\* A call the workflow made: on which order (package id), with which invoice, how it ended.
Call(op, id, arg, out) == [op |-> op, id |-> id, arg |-> arg, out |-> out]
Slots == 1..2
IdleSlot == [pc |-> "idle", user |-> "u1", order |-> 0, status |-> 0, error |-> "",
             series |-> "", number |-> 0]
\* The answer to the single-order create of user u for order o.
SingleResp(u, o, st, msg, ser, num) ==
  [pc |-> "idle", user |-> u, order |-> o, status |-> st, error |-> msg,
   series |-> ser, number |-> num]

\* No get_orders call and no draft under way.
NoOut == [error |-> "", status |-> 0, content |-> << >>, page |-> 0, size |-> 0,
          totalElements |-> 0, totalPages |-> 0]
NoDraft == [none |-> TRUE]       \* no draft returned yet
NoOrder == [lines |-> << >>]

InitService ==
  /\ upstream = << >>
  /\ status = << >>
  /\ sku = << >>
  /\ gpc = "idle"
  /\ status_idx = 0
  /\ fetch_page = 0
  /\ fetched_orders = << >>
  /\ seen_order_ids = {}
  /\ fetches = << >>
  /\ merged = << >>
  /\ window = [page |-> 0, size |-> 0]
  /\ returned = NoOut

InitDraft ==
  /\ draft_order = NoOrder
  /\ draft_series = [list |-> << >>]
  /\ invoice_data = NoDraft

\* The application after construction, over the order list m.
InitApp(m) ==
  /\ market = m
  /\ order_invoices = {}
  /\ next_id = 1
  /\ issued = {}
  /\ pc = "idle"
  /\ kind = "create"
  /\ cur = "u1"
  /\ count = 0
  /\ existing_invoice_orders = {}
  /\ invoice_mappings = << >>
  /\ page = 0
  /\ all_orders = << >>
  /\ orders_without_invoice = << >>
  /\ orders_to_process = << >>
  /\ orders_to_upload_all = << >>
  /\ orders_to_upload = << >>
  /\ idx = 0
  /\ successful = 0
  /\ failed = 0
  /\ errors = << >>
  /\ result = NoResult
  /\ resp = NoResp
  /\ calls = << >>
  /\ run = 0
  /\ crashed = {}
  /\ single = [s \in Slots |-> IdleSlot]
  /\ started = [single |-> 0, admin_add |-> 0]

Init ==
  /\ \E m \in Markets : InitApp(m)
  /\ InitService
  /\ InitDraft

\* ------------------------------------------------------------ bulk workflows
\* The filter without its invoiceLink test.
OrdersWithoutMapping(orders, existing) ==
  SelectSeq(orders, LAMBDA o : o.orderNumber \notin existing)

\* orders_without_invoice: no mapping in the snapshot and no invoiceLink.
OrdersWithoutInvoice(orders, existing) ==
  SelectSeq(orders, LAMBDA o : o.orderNumber \notin existing /\ o.invoiceLink = "")

\* orders_to_upload_all: a mapping in the snapshot and no invoiceLink, each order
\* paired with its mapping.
OrdersToUploadAll(orders, mappings) ==
  LET sel == SelectSeq(orders,
                       LAMBDA o : o.orderNumber \in DOMAIN mappings /\ o.invoiceLink = "")
  IN  [ i \in 1..Len(sel) |-> [order |-> sel[i], invoice |-> mappings[sel[i].orderNumber]] ]

WorkList == IF kind = "create" THEN orders_to_process ELSE orders_to_upload

ErrorEntry(o, msg) == [order |-> o.orderNumber, msg |-> msg]

\* The summary record with every error message.
SummaryAllErrors ==
  [status |-> 200, error |-> "", total |-> Len(WorkList), successful |-> successful,
   failed |-> failed, errors |-> errors]

\* The summary record both workflows return.
Summary ==
  [status |-> 200, error |-> "", total |-> Len(WorkList), successful |-> successful,
   failed |-> failed, errors |-> SubSeq(errors, 1, Min(MaxErrors, Len(errors)))]

ResetLocals ==
  /\ page' = 0
  /\ all_orders' = << >>
  /\ orders_without_invoice' = << >>
  /\ orders_to_process' = << >>
  /\ orders_to_upload_all' = << >>
  /\ orders_to_upload' = << >>
  /\ idx' = 0
  /\ successful' = 0
  /\ failed' = 0
  /\ errors' = << >>
  /\ result' = NoResult

\* The request is answered before the gather loop: nothing else was done.
Answer(r) ==
  /\ resp' = r
  /\ pc' = "idle"
  /\ existing_invoice_orders' = {}
  /\ invoice_mappings' = << >>

\* POST /api/bulk-send-to-smartbill or /api/bulk-upload-to-trendyol by user u
\* with order_count / upload_count c, up to the start of the gather loop.
BulkStart(u, k, c) ==
  /\ pc = "idle"
  /\ kind' = k
  /\ cur' = u
  /\ ResetLocals
  /\ UNCHANGED <<outside, market, store, issued, crashed, single, started>>
  /\ IF ~check_credentials(u)
       THEN Answer(ErrorResp(401, "Trendyol credentials not configured."))
            /\ calls' = << >> /\ run' = run /\ count' = 0
     ELSE IF ~check_smartbill_credentials(u)
       THEN Answer(ErrorResp(401, "SmartBill credentials not configured."))
            /\ calls' = << >> /\ run' = run /\ count' = 0
     ELSE
       /\ run < MaxRuns
       /\ run' = run + 1
       /\ count' = c               \* request_data.get('order_count' / 'upload_count')
       /\ calls' = << Call("select", 0, NoResult, "ok") >>
       /\ \/ \* sqlite3 raises: the outer except answers 500
             Answer(ErrorResp(500, "exception"))
          \/ /\ k = "create"
             /\ existing_invoice_orders' = OrdersOf(order_invoices, u)
             /\ invoice_mappings' = << >>
             /\ resp' = NoResp
             /\ pc' = "gather"
          \/ /\ k = "upload"
             /\ OrdersOf(order_invoices, u) # {}
             /\ existing_invoice_orders' = {}
             /\ invoice_mappings' = InvoiceMappings(order_invoices, u)
             /\ resp' = NoResp
             /\ pc' = "gather"
          \/ /\ k = "upload"
             /\ OrdersOf(order_invoices, u) = {}
             /\ Answer(ErrorResp(400, "No SmartBill invoices found in database"))

\* A gather loop that stops after its first page.
AnyPageIsLast(orders) == TRUE

\* if not orders: break ... if len(orders) < 200: break
LastPage(orders) == orders = << >> \/ Len(orders) < PageSize

\* One turn of the gather loop: get_orders(page, size), then either the next
\* page or, after the last one, the filter and the [:count] cut.
Gather ==
  /\ pc = "gather"
  /\ UNCHANGED <<outside, market, store, issued, kind, cur, count, existing_invoice_orders,
                 invoice_mappings, successful, failed, errors, result, run, crashed,
                 single, started>>
  /\ \/ \* 'error' in result
        /\ calls' = Append(calls, Call("get_orders", page, NoResult, "error"))
        /\ resp' = ErrorResp(500, "Failed to fetch orders")
        /\ pc' = "idle"
        /\ UNCHANGED <<page, all_orders, lists, idx>>
     \/ LET orders == PageContent(market, page, PageSize)
            all == all_orders \o orders
        IN  /\ calls' = Append(calls, Call("get_orders", page, NoResult, "ok"))
            /\ all_orders' = all
            /\ resp' = NoResp
            /\ IF ~LastPage(orders)
                 THEN /\ page' = page + 1
                      /\ pc' = "gather"
                      /\ UNCHANGED <<lists, idx>>
                 ELSE /\ page' = page
                      /\ idx' = 1
                      /\ IF kind = "create"
                           THEN /\ orders_without_invoice' =
                                     OrdersWithoutInvoice(all, existing_invoice_orders)
                                /\ orders_to_process' =
                                     PySliceTo(orders_without_invoice', count)
                                /\ orders_to_upload_all' = << >>
                                /\ orders_to_upload' = << >>
                                /\ pc' = IF orders_to_process' = << >> THEN "summary" ELSE "call"
                           ELSE /\ orders_to_upload_all' =
                                     OrdersToUploadAll(all, invoice_mappings)
                                /\ orders_to_upload' = PySliceTo(orders_to_upload_all', count)
                                /\ orders_without_invoice' = << >>
                                /\ orders_to_process' = << >>
                                /\ pc' = IF orders_to_upload' = << >> THEN "summary" ELSE "call"

\* A loop that a failed item ends.
NextItemUnlessFailed ==
  /\ idx' = idx + 1
  /\ pc' = IF idx < Len(WorkList) /\ failed' = failed THEN "call" ELSE "summary"

\* The for loop moves to its next item, or ends.
NextItem ==
  /\ idx' = idx + 1
  /\ pc' = IF idx < Len(WorkList) THEN "call" ELSE "summary"

Fail(o, msg) ==
  /\ failed' = failed + 1
  /\ errors' = Append(errors, ErrorEntry(o, msg))

\* An error record taken for a result.
NeverError(out) == FALSE

\* 'error' in result: the client returned an error record.
HasError(out) == out = "error"

\* Bulk-create, one order: the draft and smartbill_service.create_invoice.
CreateInvoice ==
  /\ pc = "call" /\ kind = "create"
  /\ UNCHANGED <<outside, market, store, kind, cur, count, existing_invoice_orders, invoice_mappings,
                 page, all_orders, lists, resp, run, crashed,
                 single, started>>
  /\ LET order == orders_to_process[idx]
     IN  \E out \in {"ok", "error", "raise"} :
           /\ calls' = Append(calls, Call("create_invoice", order.id, NoResult, out))
           /\ IF out = "raise"
                THEN \* the call raised: the loop's except
                     /\ Fail(order, "exception")
                     /\ NextItem
                     /\ UNCHANGED <<issued, successful, result>>
              ELSE IF HasError(out)
                THEN \* the provider answered with an error record
                     /\ Fail(order, "provider")
                     /\ NextItem
                     /\ UNCHANGED <<issued, successful, result>>
              ELSE \* the provider issued the invoice
                   /\ Cardinality(issued) < MaxInvoices
                   /\ LET number == Cardinality(issued) + 1
                      IN  /\ issued' = issued \cup {[user |-> cur, order |-> order.orderNumber,
                                                     number |-> number, run |-> run]}
                          /\ result' = [series |-> "FCT", number |-> number]
                   /\ successful' = successful + 1
                   /\ pc' = "record"
                   /\ UNCHANGED <<idx, failed, errors>>

\* Bulk-create, one order: DELETE the user's row for the order, INSERT the new
\* one, commit; an sqlite3 error is caught by the loop's except.
\* A replacement that deletes the rows of every user for the order.
RecordRowsOfAllUsers(rows, id, u, o, res) ==
  { r \in rows : r.order_id # o } \cup {Row(id, u, o, res.series, res.number)}

RecordRows(rows, id, u, o, res) ==
  DeleteMapping(rows, u, o) \cup {Row(id, u, o, res.series, res.number)}

RecordInvoice ==
  /\ pc = "record" /\ kind = "create"
  /\ UNCHANGED <<outside, market, issued, kind, cur, count, existing_invoice_orders, invoice_mappings,
                 page, all_orders, lists, successful, resp,
                 run, crashed, single, started>>
  /\ LET order == orders_to_process[idx]
     IN  IF result.series # "" /\ result.number # 0 /\ order.orderNumber # 0
           THEN \/ /\ UniqueConstraint(DeleteMapping(order_invoices, cur, order.orderNumber),
                                       cur, order.orderNumber)
                   /\ order_invoices' = RecordRows(order_invoices, next_id, cur,
                                                   order.orderNumber, result)
                   /\ next_id' = next_id + 1
                   /\ calls' = Append(calls, Call("insert", order.id, result, "ok"))
                   /\ UNCHANGED <<failed, errors>>
                \/ /\ calls' = Append(calls, Call("insert", order.id, result, "raise"))
                   /\ Fail(order, "exception")
                   /\ UNCHANGED store
           ELSE \* a blank series, number or order number: nothing is saved
                UNCHANGED <<store, calls, failed, errors>>
  /\ result' = NoResult
  /\ NextItem

\* Bulk-upload, one candidate: smartbill_service.get_invoice_pdf(series, number).
DownloadInvoice ==
  /\ pc = "call" /\ kind = "upload"
  /\ UNCHANGED <<outside, market, store, issued, kind, cur, count, existing_invoice_orders,
                 invoice_mappings, page, all_orders, lists,
                 successful, resp, run, crashed, single, started>>
  /\ LET item == orders_to_upload[idx]
     IN  \E out \in {"ok", "error"} :
           /\ calls' = Append(calls, Call("get_invoice_pdf", item.order.id, item.invoice, out))
           /\ IF HasError(out)
                THEN \* an error record: counted, recorded, continue
                     /\ Fail(item.order, "provider")
                     /\ NextItem
                     /\ UNCHANGED result
                ELSE \* the document bytes
                     /\ result' = item.invoice
                     /\ pc' = "upload"
                     /\ UNCHANGED <<idx, failed, errors>>

\* Bulk-upload, one candidate: trendyol_service.upload_invoice_file.
UploadInvoice ==
  /\ pc = "upload" /\ kind = "upload"
  /\ UNCHANGED <<outside, market, store, issued, kind, cur, count, existing_invoice_orders,
                 invoice_mappings, page, all_orders, lists,
                 resp, run, crashed, single, started>>
  /\ LET item == orders_to_upload[idx]
     IN  \E out \in {"ok", "error", "raise"} :
           /\ calls' = Append(calls, Call("upload_invoice_file", item.order.id, result, out))
           /\ IF out = "raise"
                THEN Fail(item.order, "exception") /\ UNCHANGED successful
              ELSE IF HasError(out)
                THEN Fail(item.order, "provider") /\ UNCHANGED successful
              ELSE successful' = successful + 1 /\ UNCHANGED <<failed, errors>>
  /\ result' = NoResult
  /\ NextItem

\* The loop is over: the summary is returned and the request ends.
Return ==
  /\ pc = "summary"
  /\ resp' = Summary
  /\ pc' = "idle"
  /\ existing_invoice_orders' = {}
  /\ invoice_mappings' = << >>
  /\ calls' = << >>
  /\ count' = 0
  /\ ResetLocals
  /\ UNCHANGED <<outside, market, store, issued, kind, cur, run, crashed, single, started>>

\* The process dies inside a bulk workflow: its memory is lost, the table and
\* the provider keep what was committed.
Crash ==
  /\ pc # "idle"
  /\ pc' = "idle"
  /\ crashed' = crashed \cup {[run |-> run, in_loop |-> pc \in {"call", "record", "upload"}]}
  /\ resp' = NoResp
  /\ existing_invoice_orders' = {}
  /\ invoice_mappings' = << >>
  /\ calls' = << >>
  /\ ResetLocals
  /\ count' = 0
  /\ UNCHANGED <<outside, market, store, issued, kind, cur, run, single, started>>

\* ------------------------------------------------------- single-order create
\* The duplicate check that finds nothing.
NoExisting(rows, u, o) == {}

\* SELECT invoice_series, invoice_number ... WHERE user_id = ? AND order_id = ?
Existing(rows, u, o) == { r \in rows : r.user_id = u /\ r.order_id = o }

\* POST /api/smartbill/create-invoice up to the duplicate check.
SingleCheck(s, u, o) ==
  /\ single[s].pc = "idle"
  /\ started.single < MaxSingles
  /\ started' = [started EXCEPT !.single = @ + 1]
  /\ UNCHANGED <<outside, market, store, issued, pc, bulkLocals, resp, run, crashed>>
  /\ IF ~check_smartbill_credentials(u)
       THEN single' = [single EXCEPT ![s] =
                         SingleResp(u, o, 401, "SmartBill credentials not configured.", "", 0)]
     ELSE IF Existing(order_invoices, u, o) # {}
       THEN LET existing == CHOOSE r \in Existing(order_invoices, u, o) : TRUE
            IN  single' = [single EXCEPT ![s] =
                             SingleResp(u, o, 409, "Invoice already exists",
                                        existing.invoice_series, existing.invoice_number)]
     ELSE single' = [single EXCEPT ![s] = [IdleSlot EXCEPT !.pc = "create", !.user = u,
                                                           !.order = o]]

\* ... then create_invoice and the INSERT; an IntegrityError answers 500.
SingleCreate(s) ==
  /\ single[s].pc = "create"
  /\ UNCHANGED <<outside, market, pc, bulkLocals, resp, run, crashed, started>>
  /\ LET u == single[s].user
         o == single[s].order
     IN  \/ /\ single' = [single EXCEPT ![s] = SingleResp(u, o, 500, "provider", "", 0)]
            /\ UNCHANGED <<store, issued>>
         \/ /\ Cardinality(issued) < MaxInvoices
            /\ LET number == Cardinality(issued) + 1
               IN  /\ issued' = issued \cup {[user |-> u, order |-> o, number |-> number,
                                              run |-> 0]}
                   /\ IF UniqueConstraint(order_invoices, u, o)
                        THEN /\ order_invoices' =
                                  order_invoices \cup {Row(next_id, u, o, "FCT", number)}
                             /\ next_id' = next_id + 1
                             /\ single' = [single EXCEPT ![s] =
                                              SingleResp(u, o, 200, "", "FCT", number)]
                        ELSE /\ UNCHANGED store
                             /\ single' = [single EXCEPT ![s] =
                                              SingleResp(u, o, 500, "IntegrityError", "", 0)]

\* ------------------------------------------------------------ admin screens
\* POST /admin/invoices/add: a row under the admin's own user id, unless one
\* exists for the order (409); the INSERT is subject to the table's constraint.
AdminAdd(a, o, n) ==
  /\ is_admin(a)
  /\ started.admin_add < MaxAdminRows
  /\ started' = [started EXCEPT !.admin_add = @ + 1]
  /\ ~HasMapping(order_invoices, a, o)
  /\ UniqueConstraint(order_invoices, a, o)
  /\ order_invoices' = order_invoices \cup {Row(next_id, a, o, "ADM", n)}
  /\ next_id' = next_id + 1
  /\ UNCHANGED <<outside, market, issued, pc, bulkLocals, resp, run, crashed, single>>

\* POST /admin/invoices/edit/<id>: the row must be the admin's (404), no other
\* row of the admin may hold the order (409); the UPDATE is subject to the
\* table's constraint.
AdminEdit(a, id, o, n) ==
  /\ is_admin(a)
  /\ \E r \in order_invoices : r.id = id /\ r.user_id = a
  /\ ~\E r \in order_invoices : r.user_id = a /\ r.order_id = o /\ r.id # id
  /\ UniqueConstraint({r \in order_invoices : r.id # id}, a, o)
  /\ order_invoices' =
       { IF r.id = id /\ r.user_id = a
           THEN [r EXCEPT !.order_id = o, !.invoice_series = "ADM", !.invoice_number = n]
           ELSE r : r \in order_invoices }
  /\ UNCHANGED <<outside, market, next_id, issued, pc, bulkLocals, resp, run, crashed, single, started>>

\* POST /admin/invoices/delete/<id>
AdminDelete(a, id) ==
  /\ is_admin(a)
  /\ \E r \in order_invoices : r.id = id /\ r.user_id = a
  /\ order_invoices' = { r \in order_invoices : ~(r.id = id /\ r.user_id = a) }
  /\ UNCHANGED <<outside, market, next_id, issued, pc, bulkLocals, resp, run, crashed, single, started>>

\* A request rejected by the credential checks never reads its count.
RequestCounts(u) ==
  IF check_credentials(u) /\ check_smartbill_credentials(u) THEN CountValues ELSE {0}

\* The bulk workflows, run one after the other, and the process dying in one.
Next ==
  \/ \E u \in UserIds, k \in {"create", "upload"} :
       \E c \in RequestCounts(u) : BulkStart(u, k, c)
  \/ Gather
  \/ CreateInvoice
  \/ RecordInvoice
  \/ DownloadInvoice
  \/ UploadInvoice
  \/ Return
  \/ Crash

Spec == Init /\ [][Next]_vars

\* Everything that writes the mapping table, interleaved: bulk-create with its
\* default order_count over a short order list, two single-order creates and
\* the admin screens.
InitStore ==
  /\ Init
  /\ Len(market) <= 2
  /\ \A i \in 1..Len(market) : market[i].invoiceLink = ""

NextStore ==
  \/ \E u \in {"u1", "u2"} : run = 0 /\ BulkStart(u, "create", MaxCount)
  \/ Gather
  \/ CreateInvoice
  \/ RecordInvoice
  \/ Return
  \/ \E s \in Slots, u \in {"u1", "adm"}, o \in OrderNumbers : SingleCheck(s, u, o)
  \/ \E s \in Slots : SingleCreate(s)
  \/ \E a \in UserIds, o \in OrderNumbers : AdminAdd(a, o, 1)
  \/ \E a \in UserIds, id \in 1..MaxId, o \in OrderNumbers : AdminEdit(a, id, o, 2)
  \/ \E a \in UserIds, id \in 1..MaxId : AdminDelete(a, id)

SpecStore == InitStore /\ [][NextStore]_vars

\* Two single-order create requests of one user and nothing else: each request
\* is the SELECT, then create_invoice and the INSERT, and the two interleave.
NextRace ==
  \/ \E s \in Slots, o \in OrderNumbers : SingleCheck(s, "u1", o)
  \/ \E s \in Slots : SingleCreate(s)

SpecRace == InitStore /\ [][NextRace]_vars

\* The bulk workflows over a table that may hold a row the admin screen added
\* for the admin before the first run.
NextFrame ==
  \/ Next
  \/ \E a \in UserIds, o \in OrderNumbers : run = 0 /\ pc = "idle" /\ AdminAdd(a, o, 1)

SpecFrame == Init /\ [][NextFrame]_vars

\* ------------------------------------------------ TrendyolService.get_orders
MaxUpstream == 3      \* orders the marketplace lists
FetchSize == 2        \* fetch_size of the fetch-all loops (200 in the code), scaled
MaxPage == 1          \* largest page argument
MaxSize == 2          \* largest size argument

\* Strings are sequences of characters.
lower(c) == IF c = "A" THEN "a" ELSE IF c = "B" THEN "b" ELSE c
\* str.lower()
Lower(str) == [i \in 1..Len(str) |-> lower(str[i])]
\* sub in str
In(sub, str) ==
  \E i \in 0..(Len(str) - Len(sub)) : SubSeq(str, i + 1, i + Len(sub)) = sub

\* status.split(',')
RECURSIVE Split(_)
Split(str) ==
  IF \A i \in 1..Len(str) : str[i] # ","
    THEN << str >>
    ELSE LET i == CHOOSE k \in 1..Len(str) :
                    str[k] = "," /\ \A j \in 1..(k - 1) : str[j] # ","
         IN  << SubSeq(str, 1, i - 1) >> \o Split(SubSeq(str, i + 1, Len(str)))

\* s.strip()
RECURSIVE Strip(_)
Strip(str) ==
  IF str # << >> /\ str[1] = " " THEN Strip(Tail(str))
  ELSE IF str # << >> /\ str[Len(str)] = " " THEN Strip(SubSeq(str, 1, Len(str) - 1))
  ELSE str

\* [s.strip() for s in status.split(',')]
Statuses(st) == [i \in 1..Len(Split(st)) |-> Strip(Split(st)[i])]

\* status and ',' in status
IsMulti(st) == st # << >> /\ \E i \in 1..Len(st) : st[i] = ","

StatusFilters == { << >>, <<"A">>, <<"A", ",", " ", "B">> }
SkuFilters == { << >>, <<"a", "B">> }

\* An order line and the line lists of the orders listed: a second line whose
\* merchantSku holds "Ab", a barcode "AB", and "a" and "b" in different fields.
Line(ms, bc) == [merchantSku |-> ms, barcode |-> bc]
PlainLines == << Line(<<"a">>, <<"b">>) >>
LineLists ==
  { << Line(<<"x">>, << >>), Line(<<"x", "A", "b">>, << >>) >>,
    << Line(<< >>, <<"A", "B">>) >>,
    PlainLines }

\* The orders the marketplace may list: id 0 is an order without id.
ListedOrders ==
  [id : 0..2, orderNumber : {1}, orderDate : 1..2, status : {<<"A">>, <<"B">>},
   lines : LineLists]

\* The marketplace's answer to status=st: the listed orders of that status
\* (all orders without a status parameter), in its own order.
Upstream(st) == SelectSeq(upstream, LAMBDA o : st = << >> \/ o.status = st)

\* order.get('id') or order.get('orderNumber'): an int id, else the string
\* order number; an int never equals a string.
OrderKey(o) ==
  IF o.id # 0 THEN [by |-> "id", v |-> o.id] ELSE [by |-> "orderNumber", v |-> o.orderNumber]

\* The listings: an order is listed once per status, and is the same order
\* wherever it is listed.
Upstreams ==
  { u \in UNION { [1..n -> ListedOrders] : n \in 0..MaxUpstream } :
      \A i, j \in 1..Len(u) :
        (i < j /\ OrderKey(u[i]) = OrderKey(u[j])) =>
          /\ u[i].status # u[j].status
          /\ [u[i] EXCEPT !.status = u[j].status] = u[j] }

\* The loop that appends every order.
AddAll(all, seen, content) == [orders |-> all \o content, seen |-> seen]

\* The loop over content that appends the orders not seen yet.
RECURSIVE AddUnseen(_, _, _)
AddUnseen(all, seen, content) ==
  IF content = << >> THEN [orders |-> all, seen |-> seen]
  ELSE LET o == Head(content)
       IN  IF OrderKey(o) \in seen
             THEN AddUnseen(all, seen, Tail(content))
             ELSE AddUnseen(Append(all, o), seen \cup {OrderKey(o)}, Tail(content))

\* Some line's merchantSku or barcode holds the filter, whatever the case.
LineMatches(line, f) ==
  In(Lower(f), Lower(line.merchantSku)) \/ In(Lower(f), Lower(line.barcode))

\* The filter that keeps every order.
KeepAll(orders, f) == orders

\* The client-side SKU filter.
SkuFilter(orders, f) ==
  SelectSeq(orders, LAMBDA o : \E i \in 1..Len(o.lines) : LineMatches(o.lines[i], f))

\* list.sort(key=orderDate): a stable ascending sort.
InsertByDate(sorted, o) ==
  LET n == Cardinality({ i \in 1..Len(sorted) : sorted[i].orderDate <= o.orderDate })
  IN  SubSeq(sorted, 1, n) \o << o >> \o SubSeq(sorted, n + 1, Len(sorted))

RECURSIVE SortByDate(_)
SortByDate(orders) ==
  IF orders = << >> THEN << >>
  ELSE InsertByDate(SortByDate(SubSeq(orders, 1, Len(orders) - 1)), orders[Len(orders)])

\* The page count that reports the upstream total.
TotalPagesFloor(total, size) == IF size > 0 THEN total \div size ELSE 0

\* (total + size - 1) // size if size > 0 else 0
TotalPages(total, size) == IF size > 0 THEN (total + size - 1) \div size ELSE 0

\* The record that holds the first page whatever page is asked for.
ResultOfFirstPage(orders, pg, size) ==
  LET paginated == PageContent(orders, 0, size)
  IN  [error |-> "", status |-> 0, content |-> paginated, page |-> pg, size |-> Len(paginated),
       totalElements |-> Len(orders), totalPages |-> TotalPages(Len(orders), size)]

\* The record returned over a client-side list: its page window and totals.
Result(orders, pg, size) ==
  LET paginated == PageContent(orders, pg, size)
  IN  [error |-> "", status |-> 0, content |-> paginated, page |-> pg, size |-> Len(paginated),
       totalElements |-> Len(orders), totalPages |-> TotalPages(Len(orders), size)]

\* The ways a request fails: the HTTP status of a 4xx/5xx answer, or 0 when no
\* answer came (timeout, connection error).
Failures == {401, 0}

\* bool(response) of the requests library: Response.__bool__ is Response.ok,
\* false for every status raise_for_status raises on.
ResponseOk(http) == http # 0 /\ http < 400

\* e.response.status_code if e.response else 500, and 500 for the other
\* RequestExceptions.
StatusCode(http) == IF ResponseOk(http) THEN http ELSE 500

FetchError(http) ==
  [NoOut EXCEPT !.error = "Failed to fetch orders", !.status = StatusCode(http)]
Fetch(st, pg, res, http) == [status |-> st, page |-> pg, out |-> res, http |-> http]

\* The fetch-all loop is over: filter, sort (multi-status only), cut the page.
Finish(all, sorted) ==
  \E pg \in 0..MaxPage, size \in 0..MaxSize :
    LET filtered == IF sku # << >> THEN SkuFilter(all, sku) ELSE all
        final == IF sorted THEN SortByDate(filtered) ELSE filtered
    IN  /\ window' = [page |-> pg, size |-> size]
        /\ merged' = final
        /\ returned' = Result(final, pg, size)
        /\ gpc' = "done"

\* get_orders without sku and with no or one status: one upstream page, passed on.
FetchSingle ==
  /\ gpc = "fetch" /\ ~IsMulti(status) /\ sku = << >>
  /\ UNCHANGED <<appVars, draftVars, upstream, status, sku, status_idx, fetch_page,
                 fetched_orders, seen_order_ids, merged>>
  /\ gpc' = "done"
  /\ \E pg \in 0..MaxPage, size \in 1..MaxSize :
       /\ window' = [page |-> pg, size |-> size]
       /\ \/ \E http \in Failures :
               /\ fetches' = Append(fetches, Fetch(status, pg, "error", http))
               /\ returned' = FetchError(http)
          \/ /\ fetches' = Append(fetches, Fetch(status, pg, "ok", 200))
             /\ returned' = Result(Upstream(status), pg, size)

\* get_orders with sku and with no or one status: one turn of the fetch-all
\* loop, then the filter and the page window.
FetchSku ==
  /\ gpc = "fetch" /\ ~IsMulti(status) /\ sku # << >>
  /\ UNCHANGED <<appVars, draftVars, upstream, status, sku, status_idx, seen_order_ids>>
  /\ \/ \E http \in Failures :
          /\ fetches' = Append(fetches, Fetch(status, fetch_page, "error", http))
          /\ UNCHANGED <<fetch_page, fetched_orders>>
          /\ IF fetch_page = 0
               THEN /\ returned' = FetchError(http)
                    /\ gpc' = "done"
                    /\ UNCHANGED <<merged, window>>
               ELSE Finish(fetched_orders, FALSE)
     \/ LET content == PageContent(Upstream(status), fetch_page, FetchSize)
            all == fetched_orders \o content
        IN  /\ fetches' = Append(fetches, Fetch(status, fetch_page, "ok", 200))
            /\ fetched_orders' = all
            /\ IF Len(content) < FetchSize
                 THEN Finish(all, FALSE) /\ UNCHANGED fetch_page
                 ELSE /\ fetch_page' = fetch_page + 1
                      /\ UNCHANGED <<gpc, merged, window, returned>>

\* _get_orders_multiple_statuses: the paging of a status is over; the next
\* status, or after the last one the filter, the sort and the page window.
NextStatus(all) ==
  IF status_idx < Len(Statuses(status))
    THEN /\ status_idx' = status_idx + 1
         /\ fetch_page' = 0
         /\ UNCHANGED <<gpc, merged, window, returned>>
    ELSE Finish(all, TRUE) /\ UNCHANGED <<status_idx, fetch_page>>

\* A failed request that ends the call with an error record.
CallFailed(all) ==
  /\ returned' = FetchError(0)
  /\ gpc' = "done"
  /\ UNCHANGED <<status_idx, fetch_page, merged, window>>

\* except RequestException: break -- the paging of this status ends.
StatusFailed(all) == NextStatus(all)

\* _get_orders_multiple_statuses: one turn of the loop over pages of the loop
\* over statuses.
FetchMulti ==
  /\ gpc = "fetch" /\ IsMulti(status)
  /\ UNCHANGED <<appVars, draftVars, upstream, status, sku>>
  /\ LET st == Statuses(status)[status_idx]
     IN  \/ \E http \in Failures :
              /\ fetches' = Append(fetches, Fetch(st, fetch_page, "error", http))
              /\ UNCHANGED <<fetched_orders, seen_order_ids>>
              /\ StatusFailed(fetched_orders)
         \/ LET content == PageContent(Upstream(st), fetch_page, FetchSize)
                added == AddUnseen(fetched_orders, seen_order_ids, content)
            IN  /\ fetches' = Append(fetches, Fetch(st, fetch_page, "ok", 200))
                /\ fetched_orders' = added.orders
                /\ seen_order_ids' = added.seen
                /\ IF Len(content) < FetchSize
                     THEN NextStatus(added.orders)
                     ELSE /\ fetch_page' = fetch_page + 1
                          /\ UNCHANGED <<status_idx, gpc, merged, window, returned>>

\* One call of get_orders over every listing, status and sku argument; the
\* fields a call never reads (the lines without sku, the dates without a sort)
\* are the same in all orders.
InitOrders ==
  /\ InitApp(<< >>)
  /\ InitDraft
  /\ upstream \in Upstreams
  /\ status \in StatusFilters
  /\ sku \in SkuFilters
  /\ sku = << >> => \A i \in 1..Len(upstream) : upstream[i].lines = PlainLines
  /\ ~IsMulti(status) => \A i \in 1..Len(upstream) : upstream[i].orderDate = 1
  /\ gpc = "fetch"
  /\ status_idx = 1
  /\ fetch_page = 0
  /\ fetched_orders = << >>
  /\ seen_order_ids = {}
  /\ fetches = << >>
  /\ merged = << >>
  /\ window = [page |-> 0, size |-> 0]
  /\ returned = NoOut

NextOrders == FetchSingle \/ FetchSku \/ FetchMulti

SpecOrders == InitOrders /\ [][NextOrders]_vars

\* ------------------------------------------ generate_invoice_data_from_order
MaxSeriesLen == 8     \* longest series name listed by the invoicing service
MaxLines == 2         \* most lines of an order

\* dict.get(key, default)
Get(d, key, default) == IF key \in DOMAIN d THEN d[key] ELSE default

\* The if/elif chain on line.get('sku', ''), in source order.
Entry(k, c) == [sku |-> k, code |-> c]
SkuOverrides ==
  <<
     Entry("TYBE5ZISTJCR2Q5O74", "6290360593661"),
     Entry("TYBZTU26IL7M50OR26", "6290360599168"),
     Entry("TYBOOEG4YXK6HCXL86", "6291108735411"),
     Entry("PMPE7SEBBAN4ZPP211", "6290360599120"),
     Entry("TYBO6S9ZD26OA6NI63", "6290360598888"),
     Entry("TYB46RAYZ8NJKLLI50", "6290362345749"),
     Entry("776291108737194", "6291108737194"),
     Entry("PMPGPLCV5FBWOBKL66", "6290306595771"),
     Entry("TYB50R0MDLQTMSGA13", "6290362345749"),
     Entry("TYBMF5JUXY6R2ILI26", "6290362345749"),
     Entry("TYBG2PCBBTTXM2Z558", "6298043160865"),
     Entry("TYBOOEG4YXK6HCXL86", "6291108735411"),
     Entry("TYBUZOW2O04GCF0H47", "6290306595771"),
     Entry("DH-6290362340362", "6290362340362"),
     Entry("DH-6291107456485", "6291107456485"),
     Entry("DH-6290362345749", "6290362345749"),
     Entry("TYB50R0MDLQTMSGA13", "6290362345749"),
     Entry("344259RYI9KM4NWZ", "6290362340362"),
     Entry("TYBDVN19MS50NE4L05", "6291108737194"),
     Entry("PMPNUJML9VHN1WSL78", "6290362346548"),
     Entry("TYBY6WXHAX51S4K146", "6290362346548"),
     Entry("TYBO6S9ZD26OA6NI63", "6290360598888"),
     Entry("TYBZTU26IL7M50OR26", "6290360599168"),
     Entry("DH-6295199802700", "6295199802700"),
     Entry("DH-6294015181272", "6294015181272"),
     Entry("DH-6291108738504", "6291108738504"),
     Entry("DH-6290360598918", "6290360598918"),
     Entry("899365NXPSOQXOR5", "6290360599113"),
     Entry("344259RYI9KM4NWZ", "6290362340362"),
     Entry("DH-6290362340638", "6290362340638"),
     Entry("TYBC9FYOAYWMH5V824", "6298043160865"),
     Entry("2992155993566", "6290362349679"),
     Entry("54512289WHIP1", "6290362349648"),
     Entry("PMPX7MWI02JJOZ5O03", "6290360595764"),
     Entry("PMPCHUVPFHKM851K80", "6290362340638"),
     Entry("4064666318097", "1100011127"),
     Entry("TYBVLGRVD5MIVGV049", "6290360598901"),
     Entry("TYB1LV9CP4QBMKDL08", "6298043160964"),
     Entry("PMPIHBSEOOZSJJB821", "6290362344506"),
     Entry("PMP9V4UX54QSMIVM71", "6290362346531"),
     Entry("TYBNTUAF3RG4369H97", "6291108737194"),
     Entry("TYBNTUAF3RG4369H97", "6291108730515"),
     Entry("TYBN0O65AFCYAWO087", "6298043160964"),
     Entry("TYB61GZIOG8D9CHN23", "6298043160964"),
     Entry("TYC14OQK3N169892658027912", "6291108738290")
  >>

OverrideKeys == { SkuOverrides[i].sku : i \in 1..Len(SkuOverrides) }

\* The code of the first branch of the chain whose test holds.
FirstOverride(sku_) ==
  LET hits == { i \in 1..Len(SkuOverrides) : SkuOverrides[i].sku = sku_ }
  IN  SkuOverrides[CHOOSE i \in hits : \A j \in hits : i <= j].code

\* The code that is always the merchantSku.
MerchantSkuOnly(line) == Get(line, "merchantSku", "")

\* codul before the chain: merchantSku, or sku for the placeholder.
MerchantSkuOrSku(line) ==
  IF Get(line, "merchantSku", "") = "merchantSku" THEN Get(line, "sku", "")
  ELSE Get(line, "merchantSku", "")

\* codul of a line.
Codul(line) ==
  IF Get(line, "sku", "") \in OverrideKeys THEN FirstOverride(Get(line, "sku", ""))
  ELSE MerchantSkuOrSku(line)

\* Series names are sequences of characters.
OSS == <<"-", "O", "S", "S">>
SERIE_FACTURA == <<"S", "E", "R", "I", "E", "_", "F", "A", "C", "T", "U", "R", "A">>

\* str.replace('-OSS', ''): the occurrences met from the left, none overlapping.
RECURSIVE RemoveOSS(_)
RemoveOSS(str) ==
  IF Len(str) < Len(OSS) THEN str
  ELSE IF SubSeq(str, 1, Len(OSS)) = OSS THEN RemoveOSS(SubSeq(str, Len(OSS) + 1, Len(str)))
  ELSE << Head(str) >> \o RemoveOSS(Tail(str))

\* base_series + '-OSS'
OssSeries(series_name) == RemoveOSS(series_name) \o OSS

\* The name of the first series listed, else the default.
SeriesName(series_result) ==
  IF Len(series_result.list) > 0 THEN Get(series_result.list[1], "name", SERIE_FACTURA)
  ELSE SERIE_FACTURA

\* The fields of the draft that depend on the lines, the currency and the series.
InvoiceData(order, series_result) ==
  LET order_currency == Get(order, "currencyCode", "RON")
      is_oss == order_currency # "RON"
      series_name == SeriesName(series_result)
  IN  [useIntraCif |-> is_oss,
       seriesName |-> IF is_oss THEN OssSeries(series_name) ELSE series_name,
       currency |-> Get(order, "currencyCode", ""),
       products |-> [i \in 1..Len(order.lines) |->
                       [code |-> Codul(order.lines[i]),
                        currency |-> order_currency]]]

generate_invoice_data_from_order ==
  /\ invoice_data = NoDraft
  /\ draft_order # NoOrder
  /\ invoice_data' = InvoiceData(draft_order, draft_series)
  /\ UNCHANGED <<appVars, serviceVars, draft_order, draft_series>>

\* The inputs: lines with each sku of the chain and a sku outside it, with and
\* without the placeholder merchantSku; series names over the letters of the
\* suffix; currencies.
DraftLines ==
  { [sku |-> k, merchantSku |-> m] : k \in OverrideKeys \cup {"SKU-1"},
                                     m \in {"M-1", "merchantSku"} }
    \cup { [sku |-> "SKU-1"], [merchantSku |-> "M-1"], [merchantSku |-> "merchantSku"] }
PlainLine == [sku |-> "SKU-1", merchantSku |-> "M-1"]
SeriesNames == UNION { [1..n -> {"F", "-", "O", "S"}] : n \in 0..MaxSeriesLen }
Currencies == {"RON", "EUR", "ron", ""}
DraftOrders(lines) ==
  { [currencyCode |-> c, lines |-> lines] : c \in Currencies } \cup { [lines |-> lines] }

InitDraftInputs ==
  \/ /\ draft_order \in DraftOrders(<< PlainLine >>)
     /\ draft_series \in { [list |-> << [name |-> n] >>] : n \in SeriesNames }
                           \cup { [list |-> << >>], [list |-> << [id |-> 1] >>] }
  \/ /\ draft_order \in UNION { DraftOrders(ls) :
                                  ls \in UNION { [1..n -> DraftLines] : n \in 1..MaxLines } }
     /\ draft_series = [list |-> << [name |-> <<"F">>] >>]
     /\ Get(draft_order, "currencyCode", "RON") \in {"RON", "EUR"}

InitGenerate ==
  /\ InitApp(<< >>)
  /\ InitService
  /\ InitDraftInputs
  /\ invoice_data = NoDraft

NextDraft == generate_invoice_data_from_order

SpecDraft == InitGenerate /\ [][NextDraft]_vars

\* ================================================================== claims
CallsOf(op) == SelectSeq(calls, LAMBDA c : c.op = op)
Ids(seq) == [i \in 1..Len(seq) |-> seq[i].id]
InCreateLoop == kind = "create" /\ pc \in {"call", "record", "summary"}
InUploadLoop == kind = "upload" /\ pc \in {"call", "upload", "summary"}
\* The first n entries of a list.
Take(lst, n) == SubSeq(lst, 1, Min(Max(n, 0), Len(lst)))

\* C1, first half: every order that has a mapping when a bulk-create run loads
\* the user's mappings is left out of that run's work list.
C1_MappedOrdersSkipped ==
  InCreateLoop =>
    \A i \in 1..Len(orders_to_process) :
      orders_to_process[i].orderNumber \notin existing_invoice_orders

\* C1, second half: over a sequence of uninterrupted bulk-create runs the
\* provider issues at most one invoice per (user, order number).
C1_AtMostOneInvoicePerOrder ==
  crashed = {} =>
    \A i, j \in issued : (i.user = j.user /\ i.order = j.order) => i = j

\* C1: reruns of bulk-create skip the mapped orders, so that invoicing-create
\* succeeds at most once per (user, order number) over the whole sequence.
C1_RerunsAreIdempotent == C1_MappedOrdersSkipped /\ C1_AtMostOneInvoicePerOrder

\* C2: the mapping table holds at most one row per (user, order number) in
\* every reachable state.
C2_AtMostOneRowPerOrder ==
  \A r1, r2 \in order_invoices :
    (r1.user_id = r2.user_id /\ r1.order_id = r2.order_id) => r1 = r2

\* Two requests raced for the same order and the table refused the second row,
\* while another user holds a row for the same order number.
C2_Witness ==
  /\ \E s \in Slots : single[s].error = "IntegrityError"
  /\ \E r1, r2 \in order_invoices : r1.user_id # r2.user_id /\ r1.order_id = r2.order_id

\* C3: after a bulk-create run was interrupted inside its per-order loop, a
\* later run obtains no invoice for an order the interrupted run had already
\* obtained one for.
C3_RerunAfterCrashIssuesNoDuplicate ==
  \A c \in crashed :
    c.in_loop =>
      \A i, j \in issued :
        (i.run = c.run /\ j.run > c.run /\ i.user = j.user) => i.order # j.order

C5_EligibleExactly ==
  InCreateLoop =>
    /\ (CallsOf("insert") = << >>) =>
         existing_invoice_orders = OrdersOf(order_invoices, cur)
    /\ \A i \in 1..Len(all_orders) :
         (\E j \in 1..Len(orders_without_invoice) : orders_without_invoice[j] = all_orders[i])
           <=> /\ all_orders[i].orderNumber \notin existing_invoice_orders
               /\ all_orders[i].invoiceLink = ""
    /\ \A j \in 1..Len(calls) :
         calls[j].op = "create_invoice" =>
           \E i \in 1..Len(orders_without_invoice) :
             orders_without_invoice[i].id = calls[j].id

\* A finished run that fetched a mapped order, an order with an invoiceLink
\* and an order with neither, and submitted the last.
C5_Witness ==
  /\ kind = "create" /\ pc = "summary"
  /\ \E a, b, c \in 1..Len(all_orders) :
       /\ all_orders[a].orderNumber \in existing_invoice_orders
       /\ all_orders[b].orderNumber \notin existing_invoice_orders
       /\ all_orders[b].invoiceLink # ""
       /\ \E j \in 1..Len(calls) :
            calls[j].op = "create_invoice" /\ calls[j].id = all_orders[c].id

\* C6: bulk-create attempts exactly min(max(order_count, 0), E) orders, the
\* first ones of the E eligible orders, and reports that number as total.
C6_AttemptsMinCountEligible ==
  (kind = "create" /\ pc = "summary") =>
    LET n == Min(Max(count, 0), Len(orders_without_invoice))
    IN  /\ Ids(CallsOf("create_invoice")) = [i \in 1..n |-> orders_without_invoice[i].id]
        /\ Summary.total = n

\* C7: when bulk-create finishes, every order counted in successful has
\* exactly one row for (user, order number), holding the series and a number
\* the provider returned for that order in this run.
C7_SuccessfulOrdersAreMapped ==
  (kind = "create" /\ pc = "summary") =>
    \A j \in 1..Len(calls) :
      (calls[j].op = "create_invoice" /\ calls[j].out = "ok") =>
        LET o == market[calls[j].id].orderNumber
            rows == { r \in order_invoices : r.user_id = cur /\ r.order_id = o }
        IN  /\ Cardinality(rows) = 1
            /\ \A r \in rows :
                 /\ r.invoice_series = "FCT"
                 /\ \E i \in issued : /\ i.user = cur /\ i.order = o /\ i.run = run
                                      /\ i.number = r.invoice_number

\* C8: a bulk request of a user whose marketplace or invoicing credentials are
\* not all configured is answered 401, naming the missing set (the marketplace
\* one when both are missing), with no call made and the store not read.
C8_MissingCredentialsNamed ==
  (~TrendyolConfigured(cur) \/ ~SmartbillConfigured(cur)) =>
    /\ pc = "idle"
    /\ resp.status = 401
    /\ resp.error = IF ~TrendyolConfigured(cur)
                      THEN "Trendyol credentials not configured."
                      ELSE "SmartBill credentials not configured."
    /\ calls = << >>

\* C9: the bulk-upload work list is the fetched orders with a mapping in the
\* user's store and no invoiceLink, in fetch order, cut to the first
\* upload_count entries, and nothing else is downloaded or uploaded.
C9_CandidatesExactly ==
  InUploadLoop =>
    LET cand == SelectSeq(all_orders,
                          LAMBDA o : /\ HasMapping(order_invoices, cur, o.orderNumber)
                                     /\ o.invoiceLink = "")
        first == Take(cand, count)
    IN  /\ [i \in 1..Len(orders_to_upload) |-> orders_to_upload[i].order] = first
        /\ \A j \in 1..Len(calls) :
             calls[j].op \in {"get_invoice_pdf", "upload_invoice_file"} =>
               \E i \in 1..Len(first) : first[i].id = calls[j].id

\* C10: in bulk-upload the marketplace upload of a candidate comes right after
\* a download of that candidate, by its mapped series and number, that
\* returned the document; a download error is counted and recorded, no upload
\* follows it, and the next candidate is downloaded.
C10_UploadOnlyAfterDownload ==
  InUploadLoop =>
    LET work == { j \in 1..Len(calls) :
                    calls[j].op \in {"get_invoice_pdf", "upload_invoice_file"} }
        bad == { j \in work : calls[j].out # "ok" }
        done == IF pc = "summary" THEN Len(orders_to_upload)
                ELSE IF pc = "upload" THEN idx ELSE idx - 1
    IN  /\ \A j \in work :
             /\ calls[j].op = "upload_invoice_file" =>
                  /\ j > 1
                  /\ calls[j - 1].op = "get_invoice_pdf"
                  /\ calls[j - 1].id = calls[j].id
                  /\ calls[j - 1].out = "ok"
             /\ calls[j].op = "get_invoice_pdf" =>
                  calls[j].arg = InvoiceMappings(order_invoices, cur)[market[calls[j].id].orderNumber]
             /\ (calls[j].op = "get_invoice_pdf" /\ calls[j].out = "error" /\ j < Len(calls)) =>
                  /\ calls[j + 1].op = "get_invoice_pdf"
                  /\ calls[j + 1].id # calls[j].id
        /\ failed = Cardinality(bad)
        /\ Len(errors) = failed
        /\ \A j \in bad : \E e \in 1..Len(errors) :
             errors[e].order = market[calls[j].id].orderNumber
        /\ Ids(CallsOf("get_invoice_pdf")) = [i \in 1..done |-> orders_to_upload[i].order.id]

\* A finished bulk-upload whose first download failed and whose second
\* candidate was downloaded and then uploaded.
C10_Witness ==
  /\ kind = "upload" /\ pc = "summary"
  /\ LET w == SelectSeq(calls, LAMBDA c : c.op \in {"get_invoice_pdf", "upload_invoice_file"})
     IN  /\ Len(w) = 3
         /\ w[1].op = "get_invoice_pdf" /\ w[1].out = "error"
         /\ w[2].op = "get_invoice_pdf" /\ w[2].out = "ok"
         /\ w[3].op = "upload_invoice_file" /\ w[3].out = "ok"

\* Slot s took a single-order create request in this step.
SingleArrived(s) == started'.single = started.single + 1 /\ single'[s] # single[s]

\* Slot s answered a request for an order with a mapping: 409 with the row's
\* series and number, no invoice issued, the store as it was.
SingleConflict(s) ==
  /\ single'[s].pc = "idle"
  /\ single'[s].status = 409
  /\ \E r \in order_invoices :
       /\ r.user_id = single'[s].user /\ r.order_id = single'[s].order
       /\ r.invoice_series = single'[s].series
       /\ r.invoice_number = single'[s].number
  /\ issued' = issued
  /\ order_invoices' = order_invoices
  /\ next_id' = next_id

\* Slot s's request ends: a row was written only together with an invoice the
\* provider issued for that user and order, holding its series and number.
SingleInsertsAfterCreate(s) ==
  (single[s].pc = "create" /\ single'[s].pc = "idle") =>
    /\ order_invoices' # order_invoices =>
         \E i \in issued' \ issued :
           /\ i.user = single[s].user /\ i.order = single[s].order
           /\ order_invoices' = order_invoices \cup
                {Row(next_id, i.user, i.order, "FCT", i.number)}
    /\ issued' = issued => order_invoices' = order_invoices

\* C11, as stated: a single-order create for an order number that has a
\* mapping for the current user is answered 409 with the existing series and
\* number, issues no invoice and leaves the store unchanged; a row is inserted
\* only after invoicing-create returned without error.
C11_ConflictForEveryUser ==
  [][\A s \in Slots :
       /\ (SingleArrived(s) /\ HasMapping(order_invoices, single'[s].user, single'[s].order))
            => SingleConflict(s)
       /\ SingleInsertsAfterCreate(s)]_vars

\* C11, amended: the same for a user who passes the invoicing credential
\* check (credentials configured, not an admin); other users get 401 first.
C11_ConflictWhenConfigured ==
  [][\A s \in Slots :
       /\ (/\ SingleArrived(s)
           /\ check_smartbill_credentials(single'[s].user)
           /\ HasMapping(order_invoices, single'[s].user, single'[s].order))
            => SingleConflict(s)
       /\ SingleInsertsAfterCreate(s)]_vars

\* A request was answered 409 with the number of an invoice issued earlier,
\* and another request got its row after its invoice.
C11_Witness ==
  /\ \E s \in Slots : single[s].status = 409 /\ single[s].series = "FCT" /\ single[s].number > 0
  /\ \E s \in Slots : single[s].status = 200


\* --------------------------------------------------------- get_orders claims
\* Every upstream request of the call was answered.
EveryFetchAnswered == \A i \in 1..Len(fetches) : fetches[i].out = "ok"

\* f occurs in str, whatever the case of either.
ContainsNoCase(f, str) ==
  \E i \in 0..(Len(str) - Len(f)) : \A k \in 1..Len(f) : lower(str[i + k]) = lower(f[k])

HasMatchingLine(o, f) ==
  \E i \in 1..Len(o.lines) :
    ContainsNoCase(f, o.lines[i].merchantSku) \/ ContainsNoCase(f, o.lines[i].barcode)

\* All orders of each status of the list, fetched whole and put end to end.
RECURSIVE FetchedSeparately(_)
FetchedSeparately(sts) ==
  IF sts = << >> THEN << >>
  ELSE Upstream(Head(sts)) \o FetchedSeparately(Tail(sts))

\* The list without the later orders of an identifier already in it.
Distinct(list) ==
  LET F[n \in 0..Len(list)] ==
        IF n = 0 THEN << >>
        ELSE IF \E j \in 1..(n - 1) : OrderKey(list[j]) = OrderKey(list[n])
               THEN F[n - 1]
               ELSE Append(F[n - 1], list[n])
  IN  F[Len(list)]

\* The orders of the list the sku argument asks for.
Wanted(list) ==
  IF sku = << >> THEN list ELSE SelectSeq(list, LAMBDA o : HasMatchingLine(o, sku))

Range(seq) == { seq[i] : i \in 1..Len(seq) }

\* C12: for a comma-separated status, when every upstream request is answered,
\* the list get_orders cuts its page from holds exactly the orders found by
\* fetching each status separately, merging and dropping the orders of an
\* identifier (id, else order number) already met; no identifier is in it
\* twice, and its order dates never decrease.
C12_MergedIsSortedUnion ==
  (gpc = "done" /\ IsMulti(status) /\ EveryFetchAnswered) =>
    LET expected == Wanted(Distinct(FetchedSeparately(Statuses(status))))
    IN  /\ Range(merged) = Range(expected)
        /\ Len(merged) = Len(expected)
        /\ \A i, j \in 1..Len(merged) :
             i < j => /\ OrderKey(merged[i]) # OrderKey(merged[j])
                      /\ merged[i].orderDate <= merged[j].orderDate

\* A two-status call that needed a second page of a status, met an order under
\* both statuses and had to reorder by date.
C12_Witness ==
  /\ gpc = "done" /\ IsMulti(status) /\ EveryFetchAnswered /\ sku = << >>
  /\ \E i \in 1..Len(fetches) : fetches[i].page = 1
  /\ Len(merged) < Len(FetchedSeparately(Statuses(status)))
  /\ merged # Distinct(FetchedSeparately(Statuses(status)))
  /\ Len(merged) = 2


\* The list a call without sku builds for the same status argument.
Unfiltered ==
  IF IsMulti(status) THEN Distinct(FetchedSeparately(Statuses(status)))
  ELSE Upstream(status)

\* C13: with a sku argument, when every upstream request is answered, the
\* filtered list holds only orders of the unfiltered list for the same status,
\* each with at least one line whose merchantSku or barcode contains the sku
\* whatever the case, and leaves out no order that has such a line.
C13_SkuFilterKeepsExactlyMatches ==
  (gpc = "done" /\ sku # << >> /\ EveryFetchAnswered) =>
    /\ returned.error = ""
    /\ Range(merged) \subseteq Range(Unfiltered)
    /\ \A o \in Range(merged) : HasMatchingLine(o, sku)
    /\ \A o \in Range(Unfiltered) : HasMatchingLine(o, sku) => o \in Range(merged)
    /\ Range(returned.content) \subseteq Range(merged)

\* A filtered call that dropped an order and kept one for a line that is not
\* its first, or for its barcode.
C13_Witness ==
  /\ gpc = "done" /\ sku # << >> /\ EveryFetchAnswered
  /\ 0 < Len(merged) /\ Len(merged) < Len(Unfiltered)
  /\ \E o \in Range(merged) :
       \/ Len(o.lines) = 2 /\ ~ContainsNoCase(sku, o.lines[1].merchantSku)
       \/ ContainsNoCase(sku, o.lines[1].barcode)
  /\ returned.content # << >>


\* C14: when get_orders filters by sku or merges statuses, totalElements is
\* the size of the filtered or merged list and, for a positive size,
\* totalPages is the least number of pages of that size that hold it,
\* whatever the page asked for.
C14_TotalsOfTheClientSideList ==
  (gpc = "done" /\ (sku # << >> \/ IsMulti(status)) /\ returned.error = "") =>
    /\ returned.totalElements = Len(merged)
    /\ EveryFetchAnswered => returned.totalElements = Len(Wanted(Unfiltered))
    /\ window.size > 0 =>
         /\ returned.totalPages * window.size >= returned.totalElements
         /\ (returned.totalPages - 1) * window.size < returned.totalElements
         /\ returned.totalPages >= 0

\* The second page of size 2 of a list of three orders: two pages.
C14_Witness ==
  /\ gpc = "done" /\ (sku # << >> \/ IsMulti(status)) /\ returned.error = ""
  /\ window = [page |-> 1, size |-> 2]
  /\ returned.totalElements = 3 /\ returned.totalPages = 2
  /\ Len(returned.content) = 1


\* C15: with a sku argument, whatever the status argument, a call whose
\* request for a first page failed returns an error record, and a call whose
\* only failures were on later pages returns the filtered orders of the pages
\* fetched so far, without an error.
C15_FirstPageFailureIsAnError ==
  (gpc = "done" /\ sku # << >>) =>
    LET firstFailed == \E i \in 1..Len(fetches) :
                         fetches[i].page = 0 /\ fetches[i].out = "error"
        laterFailed == \E i \in 1..Len(fetches) :
                         fetches[i].page > 0 /\ fetches[i].out = "error"
    IN  /\ firstFailed => returned.error # ""
        /\ (~firstFailed /\ laterFailed) =>
             /\ returned.error = ""
             /\ Range(merged) = { o \in Range(fetched_orders) : HasMatchingLine(o, sku) }


\* ------------------------------------------------------------ draft claims
Drafted == invoice_data # NoDraft

\* C16: for every literal entry (sku -> code) of the override chain, a line
\* whose sku is the entry's key gets the entry's code as product code,
\* whatever its merchantSku.
C16_EveryEntryApplies ==
  Drafted =>
    \A e \in 1..Len(SkuOverrides), k \in 1..Len(draft_order.lines) :
      Get(draft_order.lines[k], "sku", "") = SkuOverrides[e].sku =>
        invoice_data.products[k].code = SkuOverrides[e].code

\* C17: the series name of a draft in another currency than RON is left as it
\* is by stripping "-OSS" and appending "-OSS" once more.
C17_OssSuffixIdempotent ==
  (Drafted /\ invoice_data.useIntraCif) =>
    OssSeries(invoice_data.seriesName) = invoice_data.seriesName

\* The number of places where "-OSS" starts in str.
CountOSS(str) ==
  Cardinality({ i \in 1..(Len(str) - Len(OSS) + 1) : SubSeq(str, i, i + Len(OSS) - 1) = OSS })

EndsWithOSS(str) ==
  Len(str) >= Len(OSS) /\ SubSeq(str, Len(str) - Len(OSS) + 1, Len(str)) = OSS

\* C18: the draft of an order has useIntraCif exactly when the order's
\* currency is not "RON"; for "RON" its seriesName is the listed series
\* unchanged, and for another currency it ends with "-OSS" and holds "-OSS"
\* exactly once.
C18_OssOnlyOutsideRon ==
  (Drafted /\ "currencyCode" \in DOMAIN draft_order) =>
    /\ invoice_data.useIntraCif = (draft_order.currencyCode # "RON")
    /\ draft_order.currencyCode = "RON" =>
         invoice_data.seriesName = SeriesName(draft_series)
    /\ draft_order.currencyCode # "RON" =>
         /\ EndsWithOSS(invoice_data.seriesName)
         /\ CountOSS(invoice_data.seriesName) = 1

\* C19: a line whose sku is no key of the override chain gets its merchantSku
\* as product code, and its sku when the merchantSku is the text "merchantSku".
C19_MerchantSkuUnlessPlaceholder ==
  Drafted =>
    \A k \in 1..Len(draft_order.lines) :
      LET line == draft_order.lines[k]
          sku_ == IF "sku" \in DOMAIN line THEN line.sku ELSE ""
          merchant == IF "merchantSku" \in DOMAIN line THEN line.merchantSku ELSE ""
      IN  (\A e \in 1..Len(SkuOverrides) : SkuOverrides[e].sku # sku_) =>
            invoice_data.products[k].code =
              IF merchant = "merchantSku" THEN sku_ ELSE merchant

\* A draft with a line that took its merchantSku and a line that took its sku
\* for the placeholder.
C19_Witness ==
  /\ Drafted
  /\ Len(draft_order.lines) = 2
  /\ draft_order.lines[1] = [sku |-> "SKU-1", merchantSku |-> "M-1"]
  /\ draft_order.lines[2] = [sku |-> "SKU-1", merchantSku |-> "merchantSku"]
  /\ invoice_data.products[1].code = "M-1"
  /\ invoice_data.products[2].code = "SKU-1"


\* ------------------------------------------------------------ summary claims
\* The calls of the run that failed, in the order they were made.
FailedCalls == SelectSeq(calls, LAMBDA c : c.out # "ok")

\* C20: the errors list of a bulk summary has min(failed, MaxErrors) entries,
\* which are the first failures in processing order, each naming the order
\* number of the order that failed.
C20_ErrorsAreFirstFailures ==
  pc = "summary" =>
    LET n == IF failed < MaxErrors THEN failed ELSE MaxErrors
    IN  /\ failed = Len(FailedCalls)
        /\ Len(Summary.errors) = n
        /\ \A e \in 1..n :
             Summary.errors[e].order = market[FailedCalls[e].id].orderNumber

\* A bulk run with more failures than the summary lists, of orders with
\* different numbers.
C20_Witness ==
  /\ pc = "summary"
  /\ failed > MaxErrors
  /\ Len(Summary.errors) = MaxErrors
  /\ Summary.errors[1].order # Summary.errors[2].order


\* --------------------------------------------------- get_orders error claims
\* C21: when the only or first page request of get_orders is answered with a
\* non-2xx HTTP status, the error record returned has that status; when the
\* request fails without an answer, the record's status is 500.
C21_ErrorStatusIsUpstreamStatus ==
  (gpc = "done" /\ ~IsMulti(status) /\ fetches # << >> /\ fetches[1].out = "error") =>
    /\ returned.error # ""
    /\ fetches[1].http # 0 => returned.status = fetches[1].http
    /\ fetches[1].http = 0 => returned.status = 500


\* ---------------------------------------------------------- workflow claims
\* C22: in the summary of bulk-create and of bulk-upload, successful + failed
\* is total, the number of orders selected for processing, whatever happened
\* to each order.
C22_SuccessfulPlusFailedIsTotal ==
  pc = "summary" => Summary.successful + Summary.failed = Summary.total


\* C23: however two single-order create requests of one user for one order
\* without mapping interleave, create_invoice issues at most one invoice for
\* the order, and when both are answered and the provider refused neither,
\* exactly one reports success.
C23_OneInvoiceForConcurrentCreates ==
  \A o \in OrderNumbers :
    /\ Cardinality({ i \in issued : i.user = "u1" /\ i.order = o }) <= 1
    /\ ( /\ \A s \in Slots : single[s].order = o /\ single[s].status # 0
         /\ \A s \in Slots : single[s].error # "provider" ) =>
         Cardinality({ s \in Slots : single[s].status = 200 }) = 1


\* C24: within one bulk-create run create_invoice is called at most once per
\* order number, whatever list the marketplace client returned.
C24_OneCreatePerOrderNumberInARun ==
  InCreateLoop =>
    LET created == CallsOf("create_invoice")
    IN  \A i, j \in 1..Len(created) :
          (i < j /\ market[created[i].id].orderNumber # 0) =>
            market[created[i].id].orderNumber # market[created[j].id].orderNumber


\* C25: when a get_orders call of the gather phase of bulk-create returns an
\* error record, the workflow answers 500 with an error, goes on to no order
\* gathered from earlier pages, has made no create_invoice call and leaves the
\* mapping table and the invoices issued as they were.
C25_GatherErrorEndsBulkCreate ==
  [][ ( /\ pc = "gather" /\ kind = "create"
        /\ Len(calls') = Len(calls) + 1
        /\ calls'[Len(calls')].op = "get_orders"
        /\ calls'[Len(calls')].out = "error" ) =>
      ( /\ resp'.status = 500 /\ resp'.error # ""
        /\ pc' = "idle"
        /\ orders_to_process' = << >>
        /\ SelectSeq(calls', LAMBDA c : c.op = "create_invoice") = << >>
        /\ order_invoices' = order_invoices
        /\ issued' = issued ) ]_vars

\* A bulk-create that gathered a full page and whose request for the next
\* page returned an error record.
C25_Witness ==
  /\ kind = "create" /\ pc = "idle"
  /\ resp.status = 500
  /\ page >= 1 /\ all_orders # << >>
  /\ calls # << >> /\ calls[Len(calls)].op = "get_orders" /\ calls[Len(calls)].out = "error"


\* ------------------------------------------------------------ paging claims
\* The p-th run of at most size elements of list, counted from 0.
Chunk(list, p, size) ==
  LET left == Len(list) - p * size
      n == IF left <= 0 THEN 0 ELSE IF left < size THEN left ELSE size
  IN  [i \in 1..n |-> list[p * size + i]]

\* The runs 0 .. n-1 end to end.
RECURSIVE ChunksUpTo(_, _, _)
ChunksUpTo(list, n, size) ==
  IF n = 0 THEN << >> ELSE ChunksUpTo(list, n - 1, size) \o Chunk(list, n - 1, size)

\* C26: when get_orders filters by sku or merges statuses, for a size > 0 the
\* page returned is the page-th run of size orders of the filtered or merged
\* list, so that pages 0 .. totalPages-1 end to end are that list in its
\* order, each page holds at most size orders, and a page index >= totalPages
\* has empty content.
C26_PagesPartitionTheList ==
  (gpc = "done" /\ (sku # << >> \/ IsMulti(status)) /\ returned.error = ""
     /\ window.size > 0) =>
    /\ returned.content = Chunk(merged, window.page, window.size)
    /\ Len(returned.content) <= window.size
    /\ returned.size = Len(returned.content)
    /\ window.page >= returned.totalPages => returned.content = << >>
    /\ window.page < returned.totalPages => returned.content # << >>
    /\ ChunksUpTo(merged, returned.totalPages, window.size) = merged

\* The middle page of three pages of one order each.
C26_Witness ==
  /\ gpc = "done" /\ (sku # << >> \/ IsMulti(status)) /\ returned.error = ""
  /\ window = [page |-> 1, size |-> 1]
  /\ Len(merged) = 3 /\ returned.totalPages = 3
  /\ returned.content = << merged[2] >>
  /\ merged[1] # merged[2]


\* C27: when no fetch fails, the gather loop of bulk-create and bulk-upload
\* asks for pages 0, 1, 2, ... and stops at the first page that is empty or
\* short; the gathered list is the pages end to end and holds every order the
\* marketplace lists, none twice.
C27_GatherStopsAtFirstShortPage ==
  (pc \in {"call", "record", "upload", "summary"}) =>
    LET fetched == CallsOf("get_orders")
    IN  /\ Len(fetched) = (Len(market) \div PageSize) + 1
        /\ \A i \in 1..Len(fetched) : fetched[i].id = i - 1 /\ fetched[i].out = "ok"
        /\ all_orders = market
        /\ \A i, j \in 1..Len(all_orders) : i < j => all_orders[i] # all_orders[j]

\* A gather loop ended by an empty page after a full one, and one ended by a
\* short second page.
C27_Witness ==
  /\ pc = "call"
  /\ Len(CallsOf("get_orders")) = 2
  /\ Len(all_orders) \in {PageSize, PageSize + 1}
  /\ kind = "upload"


\* The content of the answered requests of the call, end to end.
RECURSIVE AnsweredContent(_)
AnsweredContent(fs) ==
  IF fs = << >> THEN << >>
  ELSE LET f == Head(fs)
       IN  (IF f.out = "ok" THEN Chunk(Upstream(f.status), f.page, FetchSize) ELSE << >>)
             \o AnsweredContent(Tail(fs))

\* C28: a get_orders with a comma-separated status returns no error record; a
\* failed request ends the paging of its status only, every status of the
\* list is still asked for, and the record is built from what the answered
\* requests held (empty content and totalElements 0 when none was answered).
C28_MultiStatusNeverAnError ==
  (gpc = "done" /\ IsMulti(status)) =>
    LET statuses == Statuses(status)
    IN  /\ returned.error = "" /\ returned.status = 0
        /\ \A k \in 1..Len(statuses) :
             \E i \in 1..Len(fetches) : fetches[i].status = statuses[k] /\ fetches[i].page = 0
        /\ \A i, j \in 1..Len(fetches) :
             (i < j /\ fetches[i].out = "error") => fetches[j].status # fetches[i].status
        /\ Range(merged) = Range(Wanted(Distinct(AnsweredContent(fetches))))
        /\ Len(merged) = Len(Wanted(Distinct(AnsweredContent(fetches))))
        /\ returned.totalElements = Len(merged)
        /\ (\A i \in 1..Len(fetches) : fetches[i].out = "error") =>
             returned.content = << >> /\ returned.totalElements = 0

\* A two-status call whose first status failed on its second page and whose
\* second status was answered, and that returned orders of both.
C28_Witness ==
  /\ gpc = "done" /\ IsMulti(status)
  /\ Len(fetches) = 3
  /\ fetches[1].out = "ok" /\ fetches[2].out = "error" /\ fetches[2].page = 1
  /\ fetches[3].out = "ok" /\ fetches[3].status # fetches[1].status
  /\ Len(merged) = 3
  /\ returned.content # << >>


\* C29: no step of a bulk-upload request changes the mapping table, and a
\* step of bulk-create adds or removes only rows of the current user for an
\* order number that create_invoice invoiced in this run.
C29_BulkWorkflowsFrame ==
  [][ started' = started =>
      /\ kind' = "upload" => order_invoices' = order_invoices
      /\ \A r \in (order_invoices' \ order_invoices) \cup (order_invoices \ order_invoices') :
           /\ kind = "create"
           /\ r.user_id = cur
           /\ \E i \in issued' : i.user = cur /\ i.order = r.order_id /\ i.run = run ]_vars

\* A bulk-create has written the row of its user next to another user's row
\* for the same order number.
C29_Witness ==
  /\ kind = "create" /\ pc = "summary"
  /\ \E r1, r2 \in order_invoices :
       r1.user_id # r2.user_id /\ r1.order_id = r2.order_id /\ r2.user_id = cur


\* C30: in every draft the invoice's currency, the currency of every product
\* line and the currency that decided useIntraCif are one value.
C30_OneCurrencyInTheDraft ==
  Drafted =>
    /\ \A k \in 1..Len(invoice_data.products) :
         invoice_data.products[k].currency = invoice_data.currency
    /\ invoice_data.useIntraCif = (invoice_data.currency # "RON")

====
